---- MODULE Spec2Model ----
(***************************************************************************)
(* A model of the FlowiseAI pipeline                                       *)
(* (src/examples/pipelines/integrations/flowise_pipeline.py).              *)
(*                                                                         *)
(* One Pipeline instance serves one request at a time: the host calls      *)
(* inlet, then pipe; pipe returns either a single message or a generator   *)
(* (stream_retrieve / static_retrieve) that the host then drains.          *)
(* Python values are modelled as tagged records, Python strings that the   *)
(* code parses are modelled by their structure, and every string the code  *)
(* produces is built as a real string with the code's own format.          *)
(***************************************************************************)
EXTENDS Integers, Sequences, FiniteSets, TLC

(***************************************************************************)
(* Python / JSON values.  Every value is a record of the same shape; t     *)
(* names its type and says which fields carry it:                          *)
(*   t = "null"   None                                                     *)
(*   t = "bool"   b                                                        *)
(*   t = "num"    n, an int                                                *)
(*   t = "list"   items, the sequence of its values                        *)
(*   t = "dict"   items, the sequence of its [k, val] entries in insertion *)
(*                order, k a plain key                                     *)
(*   t = "str"    a str, modelled by the structure of its text:            *)
(*       core = "plain"   word is the text; it is not JSON, is not         *)
(*                        delimited by brackets, holds no quote, backslash *)
(*       core = "json"    the text is the compact JSON encoding of the     *)
(*                        value items[1]                                   *)
(*       core = "broken"  word is the text; it is delimited by { } and is  *)
(*                        not JSON                                         *)
(*       lws / rws        the text carries one leading / trailing blank    *)
(***************************************************************************)
JNull ==
    [t |-> "null", b |-> FALSE, n |-> 0, core |-> "", word |-> "",
     lws |-> FALSE, rws |-> FALSE, items |-> <<>>]
JBool(b) == [JNull EXCEPT !.t = "bool", !.b = b]
JNum(n) == [JNull EXCEPT !.t = "num", !.n = n]
JList(q) == [JNull EXCEPT !.t = "list", !.items = q]
JDict(q) == [JNull EXCEPT !.t = "dict", !.items = q]
KV(key, value) == [k |-> key, val |-> value]
\* a plain text, the JSON text of a value, a bracketed text that is not JSON
S(word) == [JNull EXCEPT !.t = "str", !.core = "plain", !.word = word]
J(value) == [JNull EXCEPT !.t = "str", !.core = "json", !.items = <<value>>]
Broken(text) == [JNull EXCEPT !.t = "str", !.core = "broken", !.word = text]
Padded(x) == [x EXCEPT !.lws = TRUE, !.rws = TRUE]
\* the value a "json" string encodes
Encoded(x) == x.items[1]

IsStr(x) == x.t = "str"
IsDict(x) == x.t = "dict"
IsList(x) == x.t = "list"

\* dict: `key in d`, d.get(key), d.get(key, default)
HasKey(d, key) == \E i \in 1..Len(d.items) : d.items[i].k = key
GetOr(d, key, default) ==
    IF HasKey(d, key)
    THEN d.items[CHOOSE i \in 1..Len(d.items) : d.items[i].k = key].val
    ELSE default
Get(d, key) == GetOr(d, key, JNull)

(***************************************************************************)
(* Texts.  Quote(e) is a double quote escaped e times by JSON string       *)
(* escaping: 2^e - 1 backslashes and the quote.                            *)
(***************************************************************************)
RECURSIVE Backslashes(_)
Backslashes(n) == IF n = 0 THEN "" ELSE "\\" \o Backslashes(n - 1)

Quote(e) == Backslashes(2^e - 1) \o "\""

RECURSIVE Spaces(_)
Spaces(n) == IF n = 0 THEN "" ELSE " " \o Spaces(n - 1)

Blank(b) == IF b THEN " " ELSE ""

(***************************************************************************)
(* Ser(x, style, e, lvl): the JSON text of x with its quotes escaped e     *)
(* times.  style "js": compact, the remote service's own encoding;         *)
(* style "py": json.dumps(x); style "indent": json.dumps(x, indent=2) at   *)
(* nesting level lvl.  Text(s, e): the characters of string s escaped e    *)
(* times.                                                                  *)
(***************************************************************************)
RECURSIVE Ser(_, _, _, _), Text(_, _), SerItems(_, _, _, _, _, _)
Text(s, e) ==
    Blank(s.lws)
    \o (IF s.core = "json" THEN Ser(Encoded(s), "js", e, 0) ELSE s.word)
    \o Blank(s.rws)

\* items i..Len(q) of a list (isDict = FALSE) or dict, separators included
SerItems(q, i, isDict, style, e, lvl) ==
    IF i > Len(q) THEN ""
    ELSE LET lead == IF style = "indent" THEN "\n" \o Spaces(2 * (lvl + 1)) ELSE ""
             colon == IF style = "js" THEN ":" ELSE ": "
             comma == IF i = Len(q) THEN ""
                      ELSE IF style = "py" THEN ", " ELSE ","
             item == IF isDict
                     THEN Quote(e) \o q[i].k \o Quote(e) \o colon
                          \o Ser(q[i].val, style, e, lvl + 1)
                     ELSE Ser(q[i], style, e, lvl + 1)
         IN lead \o item \o comma \o SerItems(q, i + 1, isDict, style, e, lvl)

Ser(x, style, e, lvl) ==
    CASE x.t = "null" -> "null"
      [] x.t = "bool" -> (IF x.b THEN "true" ELSE "false")
      [] x.t = "num" -> ToString(x.n)
      [] x.t = "str" -> Quote(e) \o Text(x, e + 1) \o Quote(e)
      [] x.t \in {"list", "dict"} ->
            LET open == IF x.t = "dict" THEN "{" ELSE "["
                close == IF x.t = "dict" THEN "}" ELSE "]"
                tail == IF style = "indent" THEN "\n" \o Spaces(2 * lvl) ELSE ""
            IN IF Len(x.items) = 0 THEN open \o close
               ELSE open \o SerItems(x.items, 1, x.t = "dict", style, e, lvl)
                    \o tail \o close

\* json.dumps(x) and json.dumps(x, indent=2)
json_dumps(x) == Ser(x, "py", 0, 0)
json_dumps_indent(x) == Ser(x, "indent", 0, 0)

(***************************************************************************)
(* str(x) as an f-string renders it: a str is its own text, anything else  *)
(* is its repr.  (repr doubles backslashes; the texts of this model hold   *)
(* none at escape level 0.)                                                *)
(***************************************************************************)
RECURSIVE PyRepr(_), PyReprItems(_, _, _)
PyReprItems(q, i, isDict) ==
    IF i > Len(q) THEN ""
    ELSE (IF isDict THEN "'" \o q[i].k \o "': " \o PyRepr(q[i].val) ELSE PyRepr(q[i]))
         \o (IF i = Len(q) THEN "" ELSE ", ")
         \o PyReprItems(q, i + 1, isDict)

PyRepr(x) ==
    CASE x.t = "null" -> "None"
      [] x.t = "bool" -> (IF x.b THEN "True" ELSE "False")
      [] x.t = "num" -> ToString(x.n)
      [] x.t = "str" -> "'" \o Text(x, 0) \o "'"
      [] x.t = "list" -> "[" \o PyReprItems(x.items, 1, FALSE) \o "]"
      [] x.t = "dict" -> "{" \o PyReprItems(x.items, 1, TRUE) \o "}"

PyStr(x) == IF IsStr(x) THEN Text(x, 0) ELSE PyRepr(x)

\* type(x).__name__, as exception messages print it
TypeName(x) ==
    CASE x.t = "null" -> "NoneType"
      [] x.t = "bool" -> "bool"
      [] x.t = "num" -> "int"
      [] x.t = "str" -> "str"
      [] x.t = "list" -> "list"
      [] x.t = "dict" -> "dict"

(***************************************************************************)
(* json.loads(x): the parsed value, or the exception it raises.  Blanks    *)
(* around a JSON text are accepted.                                        *)
(***************************************************************************)
Parsed(value) == [ok |-> TRUE, val |-> value, exc |-> ""]
Raised(message) == [ok |-> FALSE, val |-> JNull, exc |-> message]

json_loads(x) ==
    IF ~IsStr(x)
    THEN Raised("the JSON object must be str, bytes or bytearray, not " \o TypeName(x))
    ELSE IF x.core = "json" THEN Parsed(Encoded(x))
    ELSE LET char == (IF x.lws THEN 1 ELSE 0) + (IF x.core = "broken" THEN 1 ELSE 0)
         IN Raised((IF x.core = "broken"
                    THEN "Expecting property name enclosed in double quotes"
                    ELSE "Expecting value")
                   \o ": line 1 column " \o ToString(char + 1)
                   \o " (char " \o ToString(char) \o ")")

(***************************************************************************)
(* unwrap_json (lines 199-222).  strip() removes the blanks around a       *)
(* string; a string whose stripped text starts and ends with a matching    *)
(* bracket pair is the JSON text of a dict or list, or a broken text.      *)
(***************************************************************************)
strip(x) == [x EXCEPT !.lws = FALSE, !.rws = FALSE]

Bracketed(x) ==
    \/ x.core = "broken"
    \/ x.core = "json" /\ Encoded(x).t \in {"dict", "list"}

\* the brackets tested on the text as it came, the text stripped afterwards
try_parse_json_unstripped(x) ==
    IF IsStr(x)
    THEN IF ~x.lws /\ ~x.rws /\ Bracketed(x) /\ json_loads(x).ok
         THEN json_loads(x).val
         ELSE strip(x)
    ELSE x

try_parse_json(x) ==
    IF IsStr(x)
    THEN LET stripped == strip(x)
         IN IF Bracketed(stripped) /\ json_loads(stripped).ok
            THEN json_loads(stripped).val
            ELSE stripped
    ELSE x

RECURSIVE recurse(_)
recurse(x) ==
    LET parsed == try_parse_json(x)
    IN CASE IsDict(parsed) ->
                JDict([i \in 1..Len(parsed.items) |->
                          KV(parsed.items[i].k, recurse(parsed.items[i].val))])
         [] IsList(parsed) ->
                JList([i \in 1..Len(parsed.items) |-> recurse(parsed.items[i])])
         [] OTHER -> parsed

unwrap_json(x) == recurse(x)

(***************************************************************************)
(* Output fragments: what the generators yield.  A str is a text fragment, *)
(* a {"event": {"type": "status", ...}} dict is a status fragment, and any *)
(* other object yielded as it is (a token payload that is no str) is a     *)
(* value fragment, named by its repr.                                      *)
(***************************************************************************)
TextFrag(text) == [type |-> "text", text |-> text, done |-> FALSE]
StatusFrag(description, done) == [type |-> "status", text |-> description, done |-> done]
ValueFrag(x) == [type |-> "value", text |-> PyRepr(x), done |-> FALSE]
Yield(x) == IF IsStr(x) THEN TextFrag(Text(x, 0)) ELSE ValueFrag(x)

\* The code's markdown fence, three backquotes, is written ~~~ in this module,
\* and the pictographs that open its warning texts (lines 256, 261, 285, 290)
\* are left out.  The clock counts milliseconds: a datetime is an integer,
\* and a duration the code formats in seconds is written in ms.
\* datetime.now().strftime(...) at clock value t
Stamp(t) == ToString(t)

(***************************************************************************)
(* The outcome of a piece of the loop body: the fragments it yielded and   *)
(* the message of the exception it raised, "" if none.                     *)
(***************************************************************************)
Ok(frags) == [out |-> frags, exc |-> ""]
Throw(frags, message) == [out |-> frags, exc |-> message]
NoAttr(x, name) == "'" \o TypeName(x) \o "' object has no attribute '" \o name \o "'"

\* the text of a string model holds the substring "error"
RECURSIVE MentionsError(_)
MentionsError(x) ==
    CASE x.t = "str" ->
            \/ x.core = "plain" /\ x.word = "error"
            \/ x.core = "json" /\ MentionsError(Encoded(x))
      [] x.t = "list" -> \E i \in 1..Len(x.items) : MentionsError(x.items[i])
      [] x.t = "dict" ->
            \E i \in 1..Len(x.items) :
                x.items[i].k = "error" \/ MentionsError(x.items[i].val)
      [] OTHER -> FALSE

\* `"error" in chunk`: a key of a dict, an element of a list, a substring of
\* a str; a TypeError for anything else
error_in(chunk) ==
    CASE IsDict(chunk) -> [ok |-> TRUE, val |-> HasKey(chunk, "error"), exc |-> ""]
      [] IsList(chunk) ->
            [ok |-> TRUE,
             val |-> \E i \in 1..Len(chunk.items) : chunk.items[i] = S("error"),
             exc |-> ""]
      [] IsStr(chunk) -> [ok |-> TRUE, val |-> MentionsError(chunk), exc |-> ""]
      [] OTHER ->
            [ok |-> FALSE, val |-> FALSE,
             exc |-> "argument of type '" \o TypeName(chunk) \o "' is not iterable"]

\* chunk['error'] in an f-string
error_text(chunk) ==
    CASE IsDict(chunk) -> [ok |-> TRUE, val |-> PyStr(Get(chunk, "error")), exc |-> ""]
      [] IsList(chunk) ->
            [ok |-> FALSE, val |-> "",
             exc |-> "list indices must be integers or slices, not str"]
      [] OTHER ->
            [ok |-> FALSE, val |-> "", exc |-> "string indices must be integers, not 'str'"]

(***************************************************************************)
(* The dispatch branches of stream_retrieve's loop body, one operator per  *)
(* branch.  V is self.valves, t the clock.                                 *)
(***************************************************************************)
\* a token rendered behind a label
render_token_labelled(data) == Ok(<<TextFrag("[Token] " \o PyStr(data) \o "\n")>>)

\* lines 296-297
render_token(data) == Ok(<<Yield(data)>>)

\* lines 299-306
render_start(V, data, t) ==
    IF ~V.DISPLAY_START_EVENT THEN Ok(<<>>)
    ELSE IF IsStr(data)
    THEN Ok(<<TextFrag("_Analysis started... " \o Stamp(t) \o ":_\n"
                       \o Text(data, 0) \o "\n")>>)
    ELSE IF IsDict(data) \/ IsList(data)
    THEN Ok(<<TextFrag("__Start Data__:\n~~~json\n" \o json_dumps_indent(data) \o "\n~~~")>>)
    ELSE Ok(<<TextFrag("[Start] Unexpected data format: " \o PyStr(data) \o "\n")>>)

\* lines 308-310
render_update(V, data) ==
    IF V.DISPLAY_UPDATE_EVENT
    THEN Ok(<<TextFrag("[Update] " \o json_dumps(data) \o "\n")>>)
    ELSE Ok(<<>>)

\* lines 312-327: every entry of a list payload is rendered, each time
render_agentReasoning(V, data) ==
    LET thinking == StatusFrag("Thinking...\n", FALSE)
    IN IF ~V.DISPLAY_AGENT_REASONING THEN Ok(<<thinking>>)
       ELSE IF IsList(data)
       THEN Ok(<<thinking>> \o
               [i \in 1..Len(data.items) |->
                   TextFrag("[Reasoning Step] " \o json_dumps_indent(data.items[i]) \o "\n")])
       ELSE Ok(<<thinking, TextFrag("[Reasoning] " \o json_dumps_indent(data) \o "\n")>>)

\* the metadata block behind the catch-all flag
render_metadata_as_other(V, data) ==
    IF V.DISPLAY_OTHER_EVENTS
    THEN Ok(<<TextFrag("[Metadata] " \o json_dumps_indent(data) \o "\n")>>)
    ELSE Ok(<<>>)

\* lines 329-331
render_metadata(V, data) ==
    IF V.DISPLAY_METADATA
    THEN Ok(<<TextFrag("[Metadata] " \o json_dumps_indent(data) \o "\n")>>)
    ELSE Ok(<<>>)

\* lines 337-345 and 388-390: the four kinds rendered with the generic label,
\* each behind its own flag
render_other_event(visible, event, data) ==
    IF visible
    THEN Ok(<<TextFrag("[Other Event: " \o PyStr(event) \o "] " \o json_dumps(data) \o "\n")>>)
    ELSE Ok(<<>>)

\* lines 391-393
render_end(V, t) ==
    IF V.DISPLAY_END_EVENT
    THEN Ok(<<TextFrag("Analysis complete... " \o Stamp(t) \o "\n")>>)
    ELSE Ok(<<>>)

\* lines 359-384: the lines formatted for one tool call
format_tool(V, tool_call) ==
    LET tool_name == GetOr(tool_call, "tool", S("Unknown Tool"))
        raw_input == GetOr(tool_call, "toolInput", JDict(<<>>))
        tool_input == IF IsStr(raw_input) /\ json_loads(raw_input).ok
                      THEN json_loads(raw_input).val
                      ELSE raw_input
        tool_output == unwrap_json(GetOr(tool_call, "toolOutput", JDict(<<>>)))
    IN <<"  - " \o PyStr(tool_name) \o "\n">>
       \o (IF V.DISPLAY_CALLED_TOOLS_INPUT
           THEN <<"~~~json\nInput:\n\n" \o json_dumps_indent(tool_input) \o "\n~~~\n">>
           ELSE <<>>)
       \o (IF V.DISPLAY_CALLED_TOOLS_OUTPUT
           THEN <<"~~~json\nOutput:\n\n" \o json_dumps_indent(tool_output) \o "\n~~~">>
           ELSE <<>>)

RECURSIVE format_tools(_, _, _)
format_tools(V, calls, i) ==
    IF i > Len(calls) THEN <<>>
    ELSE format_tool(V, calls[i]) \o format_tools(V, calls, i + 1)

\* "\n".join(lines)
RECURSIVE join_lines(_, _)
join_lines(lines, i) ==
    IF i > Len(lines) THEN ""
    ELSE lines[i] \o (IF i = Len(lines) THEN "" ELSE "\n") \o join_lines(lines, i + 1)

\* lines 346-387: the status first; the block, inputs and outputs included,
\* only under DISPLAY_CALLED_TOOLS.  tool_call.get raises on the first entry
\* that is no dict, after the status was yielded.
render_usedTools(V, data) ==
    LET calling == StatusFrag("Tool calling...\n", FALSE)
    IN IF ~V.DISPLAY_CALLED_TOOLS THEN Ok(<<calling>>)
       ELSE IF IsList(data)
       THEN IF \E i \in 1..Len(data.items) : ~IsDict(data.items[i])
            THEN LET bad == data.items[CHOOSE i \in 1..Len(data.items) :
                                     /\ ~IsDict(data.items[i])
                                     /\ \A j \in 1..(i - 1) : IsDict(data.items[j])]
                 IN Throw(<<calling>>, NoAttr(bad, "get"))
            ELSE Ok(<<calling,
                      TextFrag("\n\n__Called Tools__:\n"
                               \o join_lines(format_tools(V, data.items, 1), 1) \o "\n")>>)
       ELSE Ok(<<calling,
                 TextFrag("\n\n__Called Tools__:\n~~~json\n"
                          \o json_dumps_indent(data) \o "\n~~~\n")>>)

\* a malformed or missing action passed over without a fragment
render_agent_trace_lenient(data) ==
    IF ~IsDict(data) THEN Throw(<<>>, NoAttr(data, "get"))
    ELSE IF Get(data, "step") # S("agent_action") THEN Ok(<<>>)
    ELSE LET action == json_loads(Get(data, "action"))
         IN IF ~action.ok \/ ~IsDict(action.val) THEN Ok(<<>>)
            ELSE Ok(<<StatusFrag("Tool calling "
                                 \o PyStr(GetOr(action.val, "tool", S("Unknown tool")))
                                 \o "...\n", FALSE)>>)

\* lines 394-411: nothing is yielded for a step other than agent_action
render_agent_trace(data) ==
    IF ~IsDict(data) THEN Throw(<<>>, NoAttr(data, "get"))
    ELSE IF Get(data, "step") # S("agent_action") THEN Ok(<<>>)
    ELSE LET action == json_loads(Get(data, "action"))
         IN IF ~action.ok THEN Throw(<<>>, action.exc)
            ELSE IF ~IsDict(action.val) THEN Throw(<<>>, NoAttr(action.val, "get"))
            ELSE Ok(<<StatusFrag("Tool calling "
                                 \o PyStr(GetOr(action.val, "tool", S("Unknown tool")))
                                 \o "...\n", FALSE)>>)

\* the loop body without its first test: only line 333 looks for the key
has_error_key_unchecked(chunk) == [ok |-> TRUE, val |-> FALSE, exc |-> ""]

\* line 289: the first test of the loop body
has_error_key(chunk) == error_in(chunk)

\* lines 290 and 334: the fragment of a record with an error key
error_fragment(label, chunk) ==
    LET detail == error_text(chunk)
    IN IF detail.ok THEN Ok(<<TextFrag(label \o detail.val)>>)
       ELSE Throw(<<>>, detail.exc)

\* lines 293-414: event = chunk.get("event"), data = chunk.get("data") and the
\* if / elif chain, in the code's order
dispatch(chunk, V, t) ==
    IF ~IsDict(chunk) THEN Throw(<<>>, NoAttr(chunk, "get"))
    ELSE LET event == Get(chunk, "event")
             data == Get(chunk, "data")
         IN CASE event = S("token") -> render_token(data)
              [] event = S("start") -> render_start(V, data, t)
              [] event = S("update") -> render_update(V, data)
              [] event = S("agentReasoning") -> render_agentReasoning(V, data)
              [] event = S("metadata") -> render_metadata(V, data)
              [] OTHER ->
                 IF HasKey(chunk, "error")
                 THEN error_fragment("Error from FlowiseAI: ", chunk)
                 ELSE CASE event = S("agentFlowEvent") ->
                              render_other_event(V.DISPLAY_AGENT_FLOW_EVENT, event, data)
                        [] event = S("nextAgentFlow") ->
                              render_other_event(V.DISPLAY_NEXT_AGENT_FLOW, event, data)
                        [] event = S("agentFlowExecutedData") ->
                              render_other_event(V.DISPLAY_AGENT_FLOW_EXECUTED_DATA,
                                                 event, data)
                        [] event = S("usedTools") -> render_usedTools(V, data)
                        [] event = S("usageMetadata") ->
                              render_other_event(V.DISPLAY_USAGE_METADATA, event, data)
                        [] event = S("end") -> render_end(V, t)
                        [] event = S("agent_trace") -> render_agent_trace(data)
                        [] OTHER ->
                              render_other_event(V.DISPLAY_OTHER_EVENTS, event, data)

\* lines 288-414: the loop body for a chunk that is parsed
chunk_body(chunk, V, t) ==
    LET error == has_error_key(chunk)
    IN IF ~error.ok THEN Throw(<<>>, error.exc)
       ELSE IF error.val THEN error_fragment("Error during streaming: ", chunk)
       ELSE dispatch(chunk, V, t)

(***************************************************************************)
(* One iteration of `for chunk in completion`: the fragments it yields and *)
(* how it leaves the iteration: "continue" with the next chunk, "break"    *)
(* out of the loop, or "raise" out of the generator.                       *)
(***************************************************************************)
\* the warning followed by `break` in place of `continue`
invalid_chunk_break(chunk) ==
    [out |-> <<TextFrag("Invalid JSON chunk:\n~~~\n" \o Text(chunk, 0) \o "\n~~~")>>,
     ctl |-> "break"]

\* lines 283-286: a str chunk that is not JSON
invalid_chunk(chunk) ==
    [out |-> <<TextFrag("Invalid JSON chunk:\n~~~\n" \o Text(chunk, 0) \o "\n~~~")>>,
     ctl |-> "continue"]

\* the loop body without the try / except: the exception leaves the generator
contain_nothing(result) ==
    [out |-> result.out, ctl |-> IF result.exc = "" THEN "continue" ELSE "raise"]

\* lines 279, 416-418: the try / except Exception around the loop body
contain(result) ==
    IF result.exc = "" THEN [out |-> result.out, ctl |-> "continue"]
    ELSE [out |-> result.out \o <<TextFrag("\nError handling chunk: " \o result.exc)>>,
          ctl |-> "continue"]

\* lines 277-418
process_chunk(chunk, V, t) ==
    IF IsStr(chunk)
    THEN LET parsed == json_loads(chunk)
         IN IF parsed.ok THEN contain(chunk_body(parsed.val, V, t))
            ELSE invalid_chunk(chunk)
    ELSE contain(chunk_body(chunk, V, t))

\* `for chunk in completion` (line 277) over a whole run: the fragments of
\* its records, in order
RECURSIVE RenderAll(_, _, _)
RenderAll(run, V, t) ==
    IF run = <<>> THEN <<>>
    ELSE process_chunk(Head(run), V, t).out \o RenderAll(Tail(run), V, t)

\* the texts of the text fragments of a sequence, joined
RECURSIVE ConcatText(_)
ConcatText(frags) ==
    IF frags = <<>> THEN ""
    ELSE (IF Head(frags).type = "text" THEN Head(frags).text ELSE "")
         \o ConcatText(Tail(frags))

(***************************************************************************)
(* static_retrieve's rendering of the HTTP response (lines 458-478).       *)
(* A response is [exc, status_code, body]: exc is the message of the       *)
(* exception requests.post raised ("" if none), body the response text.    *)
(***************************************************************************)
HttpResponse(code, body) == [exc |-> "", status_code |-> code, body |-> body]
HttpFailure(message) == [exc |-> message, status_code |-> 0, body |-> S("")]

RecognizedKeys == <<"text", "answer", "response", "result">>

static_result(resp) ==
    IF resp.exc # "" THEN TextFrag("Error calling FlowiseAI: " \o resp.exc)
    ELSE IF resp.status_code # 200
    THEN TextFrag("Error from FlowiseAI: Status " \o ToString(resp.status_code))
    ELSE LET result == json_loads(resp.body)
         IN IF ~result.ok THEN TextFrag("Error calling FlowiseAI: " \o result.exc)
            ELSE IF IsDict(result.val)
                    /\ \E i \in 1..Len(RecognizedKeys) : HasKey(result.val, RecognizedKeys[i])
            THEN LET first == CHOOSE i \in 1..Len(RecognizedKeys) :
                                 /\ HasKey(result.val, RecognizedKeys[i])
                                 /\ \A j \in 1..(i - 1) :
                                       ~HasKey(result.val, RecognizedKeys[j])
                 IN Yield(Get(result.val, RecognizedKeys[first]))
            ELSE IF IsStr(result.val) THEN Yield(result.val)
            ELSE TextFrag("~~~json\n" \o json_dumps_indent(result.val) \o "\n~~~")

(***************************************************************************)
(* Valves (lines 27-46) and the flow configuration (lines 54-86).          *)
(***************************************************************************)
None == "<None>"

DisplayFlags ==
    {"DISPLAY_AGENT_FLOW_EVENT", "DISPLAY_NEXT_AGENT_FLOW",
     "DISPLAY_AGENT_FLOW_EXECUTED_DATA", "DISPLAY_CALLED_TOOLS",
     "DISPLAY_CALLED_TOOLS_INPUT", "DISPLAY_CALLED_TOOLS_OUTPUT",
     "DISPLAY_USAGE_METADATA", "DISPLAY_AGENT_REASONING", "DISPLAY_METADATA",
     "DISPLAY_UPDATE_EVENT", "DISPLAY_START_EVENT", "DISPLAY_END_EVENT",
     "DISPLAY_OTHER_EVENTS"}

ToolFlags ==
    {"DISPLAY_CALLED_TOOLS", "DISPLAY_CALLED_TOOLS_INPUT", "DISPLAY_CALLED_TOOLS_OUTPUT"}

ValveNames ==
    {"FLOWISE_API_KEY", "FLOWISE_BASE_URL", "RATE_LIMIT", "FLOW_ENABLED", "FLOW_ID",
     "FLOW_NAME"} \cup DisplayFlags

\* a Valves object: the display flags in `off` are False, the others True
Valves(key, url, limit, enabled, id, name, off) ==
    [f \in ValveNames |->
        CASE f = "FLOWISE_API_KEY" -> key
          [] f = "FLOWISE_BASE_URL" -> url
          [] f = "RATE_LIMIT" -> limit
          [] f = "FLOW_ENABLED" -> enabled
          [] f = "FLOW_ID" -> id
          [] f = "FLOW_NAME" -> name
          [] OTHER -> f \notin off]

\* The environments the pipeline is constructed in.  The visibility
\* configurations: every flag on, each single flag off, every combination of
\* the three usedTools flags, every flag off.
Credentials == {<<"changeme", "changeme">>, <<"", "changeme">>, <<"changeme", "">>}
RateLimit == 15
FlowIds == {None, "flow-1"}
FlowNames == {None, "Support Bot"}
OffSets == {{}} \cup {{f} : f \in DisplayFlags} \cup (SUBSET ToolFlags) \cup {DisplayFlags}

\* str.lower() on the flow names of the model
lower(name) ==
    IF name = "Support Bot" THEN "support bot"
    ELSE IF name = "Sales Bot" THEN "sales bot"
    ELSE name

\* what get_flow_details returns (lines 59-71): the chatflow, or None on a
\* status other than 200 or on an exception
FlowDetails == {JNull, JDict(<<KV("name", S("Support"))>>), JDict(<<KV("id", S("flow-1"))>>)}

\* what requests.get gives get_flow_details: a response or an exception
FlowFetches ==
    {HttpResponse(200, J(JDict(<<KV("name", S("Support"))>>))),
     HttpResponse(200, J(JDict(<<KV("id", S("flow-1"))>>))),
     HttpResponse(200, S("<html>")),
     HttpResponse(404, S("Not Found")),
     HttpFailure("connection refused")}

\* get_flow_details (lines 59-71): response.json() on status 200, None on
\* any other status and on any exception, that of response.json() included
get_flow_details(resp) ==
    IF resp.exc = "" /\ resp.status_code = 200 /\ json_loads(resp.body).ok
    THEN json_loads(resp.body).val
    ELSE JNull

\* a refresh that caches the id without the name
update_flow_details_id_alone(V, details) ==
    IF V.FLOW_ENABLED /\ V.FLOW_ID \notin {None, ""}
    THEN [flow_id |-> V.FLOW_ID,
          flow_name |-> IF V.FLOW_NAME \in {None, ""} THEN None ELSE lower(V.FLOW_NAME),
          api_flow_name |-> IF IsDict(details)
                            THEN PyStr(GetOr(details, "name", S("Unknown")))
                            ELSE "Unknown"]
    ELSE [flow_id |-> None, flow_name |-> None, api_flow_name |-> None]

\* update_flow_details (lines 73-86), given what get_flow_details returns
update_flow_details(V, details) ==
    IF V.FLOW_ENABLED /\ V.FLOW_ID \notin {None, ""} /\ V.FLOW_NAME \notin {None, ""}
    THEN [flow_id |-> V.FLOW_ID,
          flow_name |-> lower(V.FLOW_NAME),
          api_flow_name |-> IF IsDict(details)
                            THEN PyStr(GetOr(details, "name", S("Unknown")))
                            ELSE "Unknown"]
    ELSE [flow_id |-> None, flow_name |-> None, api_flow_name |-> None]

\* rate_check (lines 99-108): the time slept, in milliseconds
rate_check(V, dt_start, t) ==
    LET time_diff == t - dt_start
        time_buffer == 1000 \div V.RATE_LIMIT
    IN IF time_diff < time_buffer THEN time_buffer - time_diff ELSE 0

(***************************************************************************)
(* The environment: what the host sends and what the remote flow answers.  *)
(***************************************************************************)
MaxChunks == 3

Obj == JDict(<<KV("k", JNum(1))>>)
Ev(kind, data) == JDict(<<KV("event", S(kind)), KV("data", data)>>)
ErrEv(kind, data) ==
    JDict(<<KV("event", S(kind)), KV("data", data), KV("error", S("boom"))>>)
ToolCall ==
    JDict(<<KV("tool", S("calc")), KV("toolInput", J(Obj)), KV("toolOutput", J(Obj))>>)
Trace(fields) == Ev("agent_trace", JDict(<<KV("step", S("agent_action"))>> \o fields))
\* the n-th cumulative snapshot of the reasoning steps
Entry(i) == S("step" \o ToString(i))
Snapshot(n) == Ev("agentReasoning", JList([i \in 1..n |-> Entry(i)]))

TokenA == Ev("token", S("a"))

GatedKinds ==
    {"start", "update", "metadata", "agentReasoning", "end", "agentFlowEvent",
     "nextAgentFlow", "agentFlowExecutedData", "usageMetadata"}

Chunks ==
    {TokenA, Ev("token", Obj), JDict(<<KV("event", S("token"))>>),
     J(Ev("token", S("b"))),
     Ev("start", S("a")), Ev("start", Obj), Ev("start", JNull),
     Ev("update", Obj), Ev("metadata", Obj), Ev("end", JNull),
     Ev("agentReasoning", S("a")), Snapshot(1), Snapshot(2),
     Ev("agentFlowEvent", Obj), Ev("nextAgentFlow", Obj),
     Ev("agentFlowExecutedData", Obj), Ev("usageMetadata", Obj),
     Ev("usedTools", JList(<<ToolCall>>)), Ev("usedTools", Obj),
     Ev("usedTools", JList(<<S("x")>>)),
     Trace(<<KV("action", J(JDict(<<KV("tool", S("calc"))>>)))>>),
     Trace(<<KV("action", Broken("{oops}"))>>), Trace(<<>>),
     Trace(<<KV("action", J(JDict(<<>>)))>>),
     Trace(<<KV("action", J(JList(<<JNum(1)>>)))>>),
     Ev("agent_trace", JDict(<<KV("step", S("agent_finish"))>>)),
     Ev("agent_trace", JNull),
     Ev("custom", S("a")), JDict(<<KV("data", S("a"))>>),
     JDict(<<KV("error", S("boom"))>>), ErrEv("token", S("a")),
     ErrEv("usedTools", JList(<<ToolCall>>)), ErrEv("agent_trace", JNull),
     ErrEv("metadata", Obj),
     S("][broken"), J(JNum(5)), J(JList(<<S("error")>>)), J(S("abc"))}

\* n token chunks
Tokens(n) == [i \in 1..n |-> TokenA]

\* The runs of the remote flow: at most MaxChunks records, of which at most
\* one is not the plain token record; and the runs of cumulative snapshots.
Streams ==
    {s \in {Tokens(i) \o <<c>> \o Tokens(j) :
                c \in Chunks, i \in 0..(MaxChunks - 1), j \in 0..(MaxChunks - 1)} :
        Len(s) <= MaxChunks}
    \cup {Tokens(0)}
    \cup {[i \in 1..n |-> Snapshot(i)] : n \in 1..MaxChunks}

\* The bodies the host passes to pipe: a dict, or the JSON text of one, or a
\* str that is not JSON (lines 131-139).
Bodies ==
    {JDict(<<>>), JDict(<<KV("stream", JBool(TRUE))>>),
     JDict(<<KV("stream", JBool(FALSE))>>),
     J(JDict(<<KV("stream", JBool(TRUE))>>)), S("stream=1")}

\* user messages, and str.strip() on them
UserMessages == {" ", " hi "}
strip_text(message) == IF message = " " THEN "" ELSE IF message = " hi " THEN "hi" ELSE message

\* chat ids of the requests' metadata
ChatIds == {None, "chat-1"}

\* the clock at construction, in milliseconds
StartTime == 1000

\* milliseconds between pipe's return and the first pull on its generator
Delays == {0, 100}

\* how client.create_prediction ends (lines 254-264): "" for a completion,
\* else the exception: a requests.exceptions.RequestException or another one
ConnectFailures ==
    {[network |-> TRUE, message |-> "connection refused"],
     [network |-> FALSE, message |-> "chatflow not found"]}

\* The text of the answer of a run: its token payloads, joined.
RECURSIVE TokenText(_)
TokenText(run) ==
    IF run = <<>> THEN ""
    ELSE LET c == IF IsStr(Head(run)) /\ json_loads(Head(run)).ok
                  THEN json_loads(Head(run)).val ELSE Head(run)
         IN (IF IsDict(c) /\ Get(c, "event") = S("token") /\ IsStr(Get(c, "data"))
             THEN Text(Get(c, "data"), 0) ELSE "")
            \o TokenText(Tail(run))

\* the body with which the single-shot endpoint answers a run
AnswerBody(run) == J(JDict(<<KV("text", S(TokenText(run))), KV("chatId", S("c"))>>))

\* what requests.post returns or raises for a run (lines 458-464)
Responses(run) ==
    {HttpResponse(200, AnswerBody(run)),
     HttpResponse(200, J(JDict(<<KV("result", Obj), KV("answer", S("x"))>>))),
     HttpResponse(200, J(JDict(<<KV("json", Obj)>>))),
     HttpResponse(200, J(JList(<<JNum(1)>>))),
     HttpResponse(200, J(S("just text"))),
     HttpResponse(200, S("<html>")),
     HttpResponse(500, S("Internal Server Error")),
     HttpFailure("connection refused")}

\* the runs a single-shot request is answered for
StaticRuns ==
    {<<>>, <<TokenA>>, <<TokenA, TokenA>>, <<Ev("metadata", Obj)>>,
     <<TokenA, Ev("metadata", Obj)>>}

(***************************************************************************)
(* The state.                                                              *)
(*   valves, flow_id, flow_name, api_flow_name, chat_id                    *)
(*                 the attributes of the Pipeline object; chat_id is set   *)
(*                 by inlet only (lines 179-195), so the host calls inlet  *)
(*                 before pipe                                             *)
(*   pc            where the request is: "idle", "inlet_done",             *)
(*                 "stream_created" / "static_created" (pipe returned the  *)
(*                 generator, nothing pulled yet), "streaming", "done",    *)
(*                 "failed" (an exception left the generator)              *)
(*   ret           what pipe returned: "str", "iter" or "generator"        *)
(*   req           the arguments pipe bound for the generator              *)
(*   connected     create_prediction has returned its iterator             *)
(*   completion    the records of the remote flow's run; in streaming mode *)
(*                 the iterator create_prediction returned                 *)
(*   pos           the index of the next record of completion              *)
(*   response      the HTTP response of the single-shot request            *)
(*   emitted       the fragments yielded so far, in order, each with the   *)
(*                 index of the record it was yielded for (0: none)        *)
(*   calls         the transport calls made, in order                      *)
(*   rate_checks   the number of rate_check calls                          *)
(*   now           the clock, in milliseconds                              *)
(*   requests      the requests of the specification SpecConc, in which    *)
(*                 the host interleaves the calls of several requests      *)
(*   rate          of the specification SpecRate, which calls rate_check:  *)
(*                 whether it was called, the milliseconds between the     *)
(*                 request's start and the call, and the milliseconds it   *)
(*                 slept                                                   *)
(*   unwrap        of the specification SpecUnwrap, which applies          *)
(*                 unwrap_json to a value and then to its result: the      *)
(*                 number of applications made, the value, and the two     *)
(*                 results                                                 *)
(*   refresh       of the specification SpecConfig, in which the host      *)
(*                 assigns the valves and refreshes: whether               *)
(*                 update_flow_details completed since the last            *)
(*                 assignment, the response its fetch got, and the number  *)
(*                 of assignments made                                     *)
(*   race          of the specification SpecRace, in which a refresh runs  *)
(*                 statement by statement beside a call of pipe: the       *)
(*                 position of pipe, the flow id and name in place when    *)
(*                 line 169 tested, the arguments pipe evaluated, the      *)
(*                 next line of update_flow_details, the response of its   *)
(*                 fetch, and the pairs of flow id and name that the       *)
(*                 completed refreshes left                                *)
(*   served        of the specification SpecServe, in which the host       *)
(*                 assigns valves, refreshes and serves requests: whether  *)
(*                 the valves were all set when the most recent refresh    *)
(*                 ran and the FLOW_ID valve it read, and of each request  *)
(*                 the same two as they stood when its pipe ran, with the  *)
(*                 FLOW_ENABLED valve pipe read                            *)
(* The system message pipe extracts (lines 146-160) is passed on to the    *)
(* transport only and is left out.                                         *)
(***************************************************************************)
VARIABLES valves, flow_id, flow_name, api_flow_name, chat_id, pc, ret, req,
          connected, completion, pos, response, emitted, calls, rate_checks, now,
          requests, refresh, unwrap, rate, race, served

vars == <<valves, flow_id, flow_name, api_flow_name, chat_id, pc, ret, req,
          connected, completion, pos, response, emitted, calls, rate_checks, now,
          requests, refresh, unwrap, rate, race, served>>

\* the state that only the other specifications of this module move
elsewhere == <<requests, refresh, unwrap, rate, race, served>>

config == <<valves, flow_id, flow_name, api_flow_name>>

NoReq ==
    [streaming |-> FALSE, query |-> "", dt_start |-> 0, session_id |-> None,
     flow_id |-> None, flow_name |-> None]
NoResponse == HttpFailure("")
NoRate == [step |-> 0, elapsed |-> 0, slept |-> 0]
NoUnwrap == [step |-> 0, value |-> JNull, once |-> JNull, twice |-> JNull]
NoRefresh == [fresh |-> TRUE, fetch |-> NoResponse, changes |-> 0]
NoRace ==
    [pipe |-> "ready", streaming |-> FALSE, tested |-> <<None, None>>,
     args |-> <<None, None>>, upd |-> "idle", fetch |-> NoResponse, settled |-> {}]
NoCapture == [configured |-> FALSE, enabled |-> FALSE, flow_id |-> None]

\* Requests served concurrently by the one Pipeline instance, each with the
\* chat id in the metadata of its body (line 188).  Of a request:
\*   pc    "idle", "inlet_done", "created" (pipe returned a generator),
\*         "called" (the generator made its transport call), "done"
\*   args  the arguments pipe bound for its generator
\*   call  the transport call it made
Requests == {"A", "B"}
ChatOf(r) == IF r = "A" THEN "chat-1" ELSE "chat-2"
NoCall == [op |-> "", flow_id |-> None, question |-> "", sessionId |-> None]
NoRequest == [pc |-> "idle", args |-> NoReq, call |-> NoCall]
NoServed == [last |-> NoCapture, at |-> [r \in Requests |-> NoCapture]]

Emit(frags, src) == [i \in 1..Len(frags) |-> [src |-> src, frag |-> frags[i]]]
Frags(es) == [i \in 1..Len(es) |-> es[i].frag]

\* __init__ (lines 48-57): the valves from the environment, then
\* update_flow_details
Init ==
    /\ \E cred \in Credentials, enabled \in BOOLEAN, id \in FlowIds, name \in FlowNames,
          off \in OffSets, details \in FlowDetails :
          LET V == Valves(cred[1], cred[2], RateLimit, enabled, id, name, off)
              flow == update_flow_details(V, details)
          IN /\ valves = V
             /\ flow_id = flow.flow_id
             /\ flow_name = flow.flow_name
             /\ api_flow_name = flow.api_flow_name
    /\ chat_id = None
    /\ pc = "idle"
    /\ ret = "none"
    /\ req = NoReq
    /\ connected = FALSE
    /\ completion = <<>>
    /\ pos = 1
    /\ response = NoResponse
    /\ emitted = <<>>
    /\ calls = <<>>
    /\ rate_checks = 0
    /\ now = StartTime
    /\ requests = [r \in Requests |-> NoRequest]
    /\ refresh = NoRefresh
    /\ unwrap = NoUnwrap
    /\ rate = NoRate
    /\ race = NoRace
    /\ served = NoServed

\* inlet (lines 179-195)
Inlet ==
    /\ pc = "idle"
    /\ \E id \in ChatIds : chat_id' = id
    /\ pc' = "inlet_done"
    /\ UNCHANGED <<elsewhere, config, ret, req, connected, completion, pos, response, emitted,
                   calls, rate_checks, now>>

\* line 169 without its test of self.flow_id
flow_ready_if_enabled(V, id) == V.FLOW_ENABLED

\* lines 162 and 169: the two configuration tests of pipe
has_credentials(V) == V.FLOWISE_API_KEY # "" /\ V.FLOWISE_BASE_URL # ""
flow_ready(V, id) == V.FLOW_ENABLED /\ id \notin {None, ""}

\* pipe (lines 128-177)
Pipe ==
    /\ pc = "inlet_done"
    /\ \E user_message \in UserMessages, raw_body \in Bodies :
          LET loaded == IF IsStr(raw_body) THEN json_loads(raw_body)
                        ELSE Parsed(raw_body)
              body == loaded.val
              streaming == GetOr(body, "stream", JBool(FALSE)) = JBool(TRUE)
              answer(message) ==
                  /\ emitted' = Emit(<<TextFrag(message)>>, 0)
                  /\ ret' = IF loaded.ok /\ streaming THEN "iter" ELSE "str"
                  /\ pc' = "done"
                  /\ req' = req
          IN IF ~loaded.ok
             THEN answer("Error: The 'body' parameter received was an invalid JSON string. It must be a valid JSON object or a dictionary.")
             ELSE IF ~has_credentials(valves)
             THEN answer("Missing FlowiseAI configuration.")
             ELSE IF ~flow_ready(valves, flow_id)
             THEN answer("FlowiseAI flow is not configured or enabled.")
             ELSE /\ req' = [streaming |-> streaming,
                             query |-> strip_text(user_message),
                             dt_start |-> now,
                             session_id |-> chat_id,
                             flow_id |-> flow_id,
                             flow_name |-> flow_name]
                  /\ ret' = "generator"
                  /\ pc' = IF streaming THEN "stream_created" ELSE "static_created"
                  /\ emitted' = emitted
    /\ UNCHANGED <<elsewhere, config, chat_id, connected, completion, pos, response, calls,
                   rate_checks, now>>

\* lines 225-227 and 434-436: the first pull finds the query empty
EmptyQuery ==
    /\ pc \in {"stream_created", "static_created"}
    /\ req.query = ""
    /\ emitted' = emitted \o Emit(<<TextFrag("Query is empty.")>>, 0)
    /\ pc' = "done"
    /\ UNCHANGED <<elsewhere, config, chat_id, ret, req, connected, completion, pos, response,
                   calls, rate_checks, now>>

\* the call a transport receives: sessionId is overridden only for a
\* session id that is truthy (lines 240-241, 442-443)
Call(op) ==
    [op |-> op, flow_id |-> req.flow_id, question |-> req.query,
     sessionId |-> IF req.session_id \in {None, ""} THEN None ELSE req.session_id]

\* lines 266-275
analysis_started(t) == StatusFrag("Analysis started at " \o Stamp(t) \o "\n", FALSE)

\* the elapsed time taken from the start of the stream: no time passes
\* between the records of a run of this model
analysis_completed_since_stream(dt_start, t) ==
    StatusFrag("Analysis completed at " \o Stamp(t) \o ", total analysis time: "
               \o ToString(0) \o " ms\n", TRUE)

\* lines 420-431: the elapsed time is taken from pipe's dt_start
analysis_completed(dt_start, t) ==
    StatusFrag("Analysis completed at " \o Stamp(t) \o ", total analysis time: "
               \o ToString(t - dt_start) \o " ms\n", TRUE)

\* lines 229-275: rate_check, create_prediction, and the first status
StreamConnect ==
    /\ pc = "stream_created"
    /\ req.query # ""
    /\ \E d \in Delays, run \in Streams :
          LET t == now + d + rate_check(valves, req.dt_start, now + d)
          IN /\ now' = t
             /\ completion' = run
             /\ emitted' = emitted \o Emit(<<analysis_started(t)>>, 0)
    /\ rate_checks' = rate_checks + 1
    /\ calls' = Append(calls, Call("create_prediction"))
    /\ pos' = 1
    /\ connected' = TRUE
    /\ pc' = "streaming"
    /\ UNCHANGED <<elsewhere, config, chat_id, ret, req, response>>

\* lines 255-264: create_prediction raises
StreamConnectFails ==
    /\ pc = "stream_created"
    /\ req.query # ""
    /\ \E d \in Delays, failure \in ConnectFailures :
          /\ now' = now + d + rate_check(valves, req.dt_start, now + d)
          /\ emitted' = emitted \o Emit(
                <<TextFrag((IF failure.network THEN "Network error during streaming:\n~~~\n"
                            ELSE "Exception during streaming:\n~~~\n")
                           \o failure.message \o "\n~~~")>>, 0)
    /\ rate_checks' = rate_checks + 1
    /\ calls' = Append(calls, Call("create_prediction"))
    /\ pc' = "done"
    /\ UNCHANGED <<elsewhere, config, chat_id, ret, req, connected, completion, pos, response>>

\* lines 277-418: one iteration of the loop
StreamChunk ==
    /\ pc = "streaming"
    /\ pos <= Len(completion)
    /\ LET result == process_chunk(completion[pos], valves, now)
       IN /\ emitted' = emitted \o Emit(result.out, pos)
          /\ pos' = IF result.ctl = "break" THEN Len(completion) + 1 ELSE pos + 1
          /\ pc' = IF result.ctl = "raise" THEN "failed" ELSE pc
    /\ UNCHANGED <<elsewhere, config, chat_id, ret, req, connected, completion, response, calls,
                   rate_checks, now>>

\* lines 420-431: the iterator is exhausted
StreamEnd ==
    /\ pc = "streaming"
    /\ pos > Len(completion)
    /\ emitted' = emitted \o Emit(<<analysis_completed(req.dt_start, now)>>, 0)
    /\ pc' = "done"
    /\ UNCHANGED <<elsewhere, config, chat_id, ret, req, connected, completion, pos, response,
                   calls, rate_checks, now>>

\* the run classified record by record and its text fragments joined
static_fragments_classified(V, run, resp, t) == <<TextFrag(ConcatText(RenderAll(run, V, t)))>>

\* lines 438-478: the single-shot request and its one fragment; no record
\* of the run is classified
static_fragments(V, run, resp, t) == <<static_result(resp)>>

\* the request posted a second time after a failure
StaticPostRetry ==
    /\ pc = "static_created"
    /\ req.query # ""
    /\ \E d \in Delays, run \in StaticRuns :
          \E resp \in Responses(run) :
             LET t == now + d + rate_check(valves, req.dt_start, now + d)
             IN /\ now' = t
                /\ completion' = run
                /\ response' = resp
                /\ emitted' = emitted \o Emit(static_fragments(valves, run, resp, t), 0)
    /\ rate_checks' = rate_checks + 1
    /\ calls' = IF response'.exc # "" \/ response'.status_code # 200
               THEN calls \o <<Call("post"), Call("post")>>
               ELSE Append(calls, Call("post"))
    /\ pc' = "done"
    /\ UNCHANGED <<elsewhere, config, chat_id, ret, req, connected, pos>>

StaticPost ==
    /\ pc = "static_created"
    /\ req.query # ""
    /\ \E d \in Delays, run \in StaticRuns :
          \E resp \in Responses(run) :
             LET t == now + d + rate_check(valves, req.dt_start, now + d)
             IN /\ now' = t
                /\ completion' = run
                /\ response' = resp
                /\ emitted' = emitted \o Emit(static_fragments(valves, run, resp, t), 0)
    /\ rate_checks' = rate_checks + 1
    /\ calls' = Append(calls, Call("post"))
    /\ pc' = "done"
    /\ UNCHANGED <<elsewhere, config, chat_id, ret, req, connected, pos>>

Next ==
    \/ Inlet
    \/ Pipe
    \/ EmptyQuery
    \/ StreamConnect
    \/ StreamConnectFails
    \/ StreamChunk
    \/ StreamEnd
    \/ StaticPost

Spec == Init /\ [][Next]_vars

(***************************************************************************)
(* Concurrent requests.  The host awaits inlet for a request and later     *)
(* runs pipe for it; between the two it may serve another request on the   *)
(* same Pipeline object.  Each action is one call of the host; the         *)
(* generator is followed up to its transport call.                         *)
(***************************************************************************)
single == <<pc, ret, req, connected, completion, pos, response, emitted>>

\* inlet (lines 179-195) for request r: line 189 stores its chat id on self
InletOf(r) ==
    /\ requests[r].pc = "idle"
    /\ chat_id' = ChatOf(r)
    /\ requests' = [requests EXCEPT ![r].pc = "inlet_done"]
    /\ UNCHANGED <<config, single, calls, rate_checks, now, refresh, unwrap, rate, race, served>>

\* pipe (lines 128-177) for request r: line 144 reads the chat id from self
PipeOf(r) ==
    /\ requests[r].pc = "inlet_done"
    /\ \E user_message \in UserMessages, raw_body \in Bodies :
          LET loaded == IF IsStr(raw_body) THEN json_loads(raw_body)
                        ELSE Parsed(raw_body)
              streaming == GetOr(loaded.val, "stream", JBool(FALSE)) = JBool(TRUE)
          IN IF ~loaded.ok \/ ~has_credentials(valves) \/ ~flow_ready(valves, flow_id)
             THEN requests' = [requests EXCEPT ![r].pc = "done"]
             ELSE requests' = [requests EXCEPT
                                 ![r].pc = "created",
                                 ![r].args = [streaming |-> streaming,
                                              query |-> strip_text(user_message),
                                              dt_start |-> now,
                                              session_id |-> chat_id,
                                              flow_id |-> flow_id,
                                              flow_name |-> flow_name]]
    /\ UNCHANGED <<config, chat_id, single, calls, rate_checks, now, refresh, unwrap, rate, race, served>>

\* the first pull on the generator of request r (lines 225-254, 434-460):
\* nothing for an empty query, else the rate check and the transport call
FirstPullOf(r) ==
    /\ requests[r].pc = "created"
    /\ LET args == requests[r].args
           call == [op |-> IF args.streaming THEN "create_prediction" ELSE "post",
                    flow_id |-> args.flow_id,
                    question |-> args.query,
                    sessionId |-> IF args.session_id \in {None, ""} THEN None
                                  ELSE args.session_id]
       IN IF args.query = ""
          THEN /\ requests' = [requests EXCEPT ![r].pc = "done"]
               /\ UNCHANGED <<calls, rate_checks, now>>
          ELSE /\ requests' = [requests EXCEPT ![r].pc = "called", ![r].call = call]
               /\ calls' = Append(calls, call)
               /\ rate_checks' = rate_checks + 1
               /\ now' = now + rate_check(valves, args.dt_start, now)
    /\ UNCHANGED <<config, chat_id, single, refresh, unwrap, rate, race, served>>

NextConc ==
    \/ \E r \in Requests : InletOf(r)
    \/ \E r \in Requests : PipeOf(r)
    \/ \E r \in Requests : FirstPullOf(r)

SpecConc == Init /\ [][NextConc]_vars

(***************************************************************************)
(* Valve changes and refreshes.  The host assigns a new Valves object to   *)
(* self.valves and calls on_valves_updated; on_startup refreshes too.      *)
(* The display flags and the credentials stay as constructed.              *)
(***************************************************************************)
MaxChanges == 2
NewFlowIds == {None, "", "flow-1", "flow-2"}
NewFlowNames == {None, "", "Support Bot", "Sales Bot"}

Configured(V) ==
    V.FLOW_ENABLED /\ V.FLOW_ID \notin {None, ""} /\ V.FLOW_NAME \notin {None, ""}

\* __init__ (lines 48-57), the response of the constructor's fetch kept
InitConfig ==
    /\ \E enabled \in BOOLEAN, id \in FlowIds, name \in FlowNames, resp \in FlowFetches :
          LET V == Valves("changeme", "changeme", RateLimit, enabled, id, name, {})
              flow == update_flow_details(V, get_flow_details(resp))
          IN /\ valves = V
             /\ flow_id = flow.flow_id
             /\ flow_name = flow.flow_name
             /\ api_flow_name = flow.api_flow_name
             /\ refresh = [fresh |-> TRUE,
                           fetch |-> IF Configured(V) THEN resp ELSE NoResponse,
                           changes |-> 0]
    /\ chat_id = None
    /\ pc = "idle"
    /\ ret = "none"
    /\ req = NoReq
    /\ connected = FALSE
    /\ completion = <<>>
    /\ pos = 1
    /\ response = NoResponse
    /\ emitted = <<>>
    /\ calls = <<>>
    /\ rate_checks = 0
    /\ now = StartTime
    /\ requests = [r \in Requests |-> NoRequest]
    /\ unwrap = NoUnwrap
    /\ rate = NoRate
    /\ race = NoRace
    /\ served = NoServed

\* the host assigns self.valves
SetValves ==
    /\ refresh.changes < MaxChanges
    /\ \E enabled \in BOOLEAN, id \in NewFlowIds, name \in NewFlowNames :
          valves' = [valves EXCEPT !.FLOW_ENABLED = enabled, !.FLOW_ID = id,
                                   !.FLOW_NAME = name]
    /\ refresh' = [refresh EXCEPT !.fresh = FALSE, !.changes = @ + 1]
    /\ UNCHANGED <<flow_id, flow_name, api_flow_name, chat_id, single, calls,
                   rate_checks, now, requests, unwrap, rate,
                   race, served>>

\* on_startup / on_valves_updated (lines 88-97): update_flow_details, which
\* fetches only for valves that are all set
Refresh ==
    /\ \E resp \in FlowFetches :
          LET flow == update_flow_details(valves, get_flow_details(resp))
          IN /\ flow_id' = flow.flow_id
             /\ flow_name' = flow.flow_name
             /\ api_flow_name' = flow.api_flow_name
             /\ refresh' = [refresh EXCEPT
                               !.fresh = TRUE,
                               !.fetch = IF Configured(valves) THEN resp ELSE NoResponse]
    /\ UNCHANGED <<valves, chat_id, single, calls, rate_checks, now, requests, unwrap, rate,
                   race, served>>

NextConfig ==
    \/ SetValves
    \/ Refresh

SpecConfig == InitConfig /\ [][NextConfig]_vars

(***************************************************************************)
(* unwrap_json applied to value trees.  The trees: the scalars, plain and  *)
(* broken texts with and without blanks around them, and up to MaxDepth    *)
(* layers of list, dict and JSON text (with and without blanks) over them. *)
(***************************************************************************)
MaxDepth == 3

Leaves ==
    {JNull, JBool(TRUE), JNum(1), S("hi"), Padded(S("hi")), Broken("{oops}"),
     Padded(Broken("{oops}"))}

RECURSIVE Values(_)
Values(depth) ==
    IF depth = 0 THEN Leaves
    ELSE LET inner == Values(depth - 1)
         IN Leaves \cup {JList(<<v>>) : v \in inner}
                   \cup {JDict(<<KV("k", v)>>) : v \in inner}
                   \cup {J(v) : v \in inner}
                   \cup {Padded(J(v)) : v \in inner}

\* a Pipeline at rest, constructed with a configured flow and RATE_LIMIT
AtRestWith(limit) ==
    /\ valves = Valves("changeme", "changeme", limit, TRUE, "flow-1", "Support Bot", {})
    /\ flow_id = "flow-1"
    /\ flow_name = "support bot"
    /\ api_flow_name = "Unknown"
    /\ chat_id = None
    /\ pc = "idle"
    /\ ret = "none"
    /\ req = NoReq
    /\ connected = FALSE
    /\ completion = <<>>
    /\ pos = 1
    /\ response = NoResponse
    /\ emitted = <<>>
    /\ calls = <<>>
    /\ rate_checks = 0
    /\ now = StartTime
    /\ requests = [r \in Requests |-> NoRequest]
    /\ refresh = NoRefresh

AtRest == AtRestWith(RateLimit)

InitUnwrap ==
    /\ AtRest
    /\ rate = NoRate
    /\ race = NoRace
    /\ served = NoServed
    /\ \E x \in Values(MaxDepth) : unwrap = [NoUnwrap EXCEPT !.value = x]

\* self.unwrap_json(value) (lines 199-222)
Unwrap ==
    /\ unwrap.step = 0
    /\ unwrap' = [unwrap EXCEPT !.step = 1, !.once = unwrap_json(unwrap.value)]
    /\ UNCHANGED <<config, chat_id, single, calls, rate_checks, now, requests, refresh, rate, race, served>>

\* self.unwrap_json on the result of the first application
UnwrapAgain ==
    /\ unwrap.step = 1
    /\ unwrap' = [unwrap EXCEPT !.step = 2, !.twice = unwrap_json(unwrap.once)]
    /\ UNCHANGED <<config, chat_id, single, calls, rate_checks, now, requests, refresh, rate, race, served>>

NextUnwrap ==
    \/ Unwrap
    \/ UnwrapAgain

SpecUnwrap == InitUnwrap /\ [][NextUnwrap]_vars

(***************************************************************************)
(* rate_check called for a request that started rate.elapsed milliseconds  *)
(* before the call, under several values of RATE_LIMIT.                    *)
(***************************************************************************)
MaxTicks == 125
Limits == {1, 5, RateLimit, 60}
Elapsed == {100 * k : k \in 0..MaxTicks}

InitRate ==
    /\ \E limit \in Limits : AtRestWith(limit)
    /\ unwrap = NoUnwrap
    /\ race = NoRace
    /\ served = NoServed
    /\ \E e \in Elapsed : rate = [NoRate EXCEPT !.elapsed = e]

\* self.rate_check(dt_start) (lines 99-108), time.sleep included
RateCheck ==
    /\ rate.step = 0
    /\ LET dt_start == now
           called == now + rate.elapsed
           slept == rate_check(valves, dt_start, called)
       IN /\ rate' = [rate EXCEPT !.step = 1, !.slept = slept]
          /\ now' = called + slept
    /\ rate_checks' = rate_checks + 1
    /\ UNCHANGED <<config, chat_id, single, calls, requests, refresh, unwrap, race, served>>

NextRate == RateCheck

SpecRate == InitRate /\ [][NextRate]_vars

(***************************************************************************)
(* A refresh beside a call of pipe.  pipe is a plain function and the      *)
(* hooks on_startup and on_valves_updated are coroutines, so the host      *)
(* runs pipe on a worker thread while its event loop runs a hook; nothing  *)
(* in the class locks the flow configuration.  Each action is one          *)
(* statement, or one attribute load, of pipe or of update_flow_details;    *)
(* an attribute load and an attribute store are atomic.  The host assigns  *)
(* the valves on the event loop, hence only between two refreshes.  The    *)
(* instance starts configured for flow-1, enabled, with credentials; the   *)
(* request has the query "hi" and no chat id.                              *)
(***************************************************************************)
InitRace ==
    /\ AtRest
    /\ unwrap = NoUnwrap
    /\ rate = NoRate
    /\ race = [NoRace EXCEPT !.settled = {<<flow_id, flow_name>>}]
    /\ served = NoServed

\* the host assigns self.valves, no refresh being under way
AssignValves ==
    /\ race.upd = "idle"
    /\ SetValves
    /\ race' = race

\* line 75
ClearFlowId ==
    /\ race.upd = "idle"
    /\ flow_id' = None
    /\ race' = [race EXCEPT !.upd = "76"]
    /\ UNCHANGED <<valves, flow_name, api_flow_name, chat_id, single, calls, rate_checks,
                   now, requests, refresh, unwrap, rate, served>>

\* line 76
ClearFlowName ==
    /\ race.upd = "76"
    /\ flow_name' = None
    /\ race' = [race EXCEPT !.upd = "77"]
    /\ UNCHANGED <<valves, flow_id, api_flow_name, chat_id, single, calls, rate_checks,
                   now, requests, refresh, unwrap, rate, served>>

\* line 77
ClearApiFlowName ==
    /\ race.upd = "77"
    /\ api_flow_name' = None
    /\ race' = [race EXCEPT !.upd = "79"]
    /\ UNCHANGED <<valves, flow_id, flow_name, chat_id, single, calls, rate_checks,
                   now, requests, refresh, unwrap, rate, served>>

\* lines 79-80 and 85: the test of the valves and, when they are all set,
\* the fetch; else the refresh is over
TestAndFetch ==
    /\ race.upd = "79"
    /\ IF Configured(valves)
       THEN /\ \E resp \in FlowFetches : race' = [race EXCEPT !.upd = "81", !.fetch = resp]
            /\ refresh' = refresh
       ELSE /\ race' = [race EXCEPT !.upd = "idle", !.fetch = NoResponse,
                                    !.settled = @ \cup {<<flow_id, flow_name>>}]
            /\ refresh' = [refresh EXCEPT !.fresh = TRUE, !.fetch = NoResponse]
    /\ UNCHANGED <<config, chat_id, single, calls, rate_checks, now, requests, unwrap, rate, served>>

\* line 81
StoreFlowId ==
    /\ race.upd = "81"
    /\ flow_id' = update_flow_details(valves, get_flow_details(race.fetch)).flow_id
    /\ race' = [race EXCEPT !.upd = "82"]
    /\ UNCHANGED <<valves, flow_name, api_flow_name, chat_id, single, calls, rate_checks,
                   now, requests, refresh, unwrap, rate, served>>

\* line 82
StoreFlowName ==
    /\ race.upd = "82"
    /\ flow_name' = update_flow_details(valves, get_flow_details(race.fetch)).flow_name
    /\ race' = [race EXCEPT !.upd = "83"]
    /\ UNCHANGED <<valves, flow_id, api_flow_name, chat_id, single, calls, rate_checks,
                   now, requests, refresh, unwrap, rate, served>>

\* lines 83-84: the last store, and the refresh is over
StoreApiFlowName ==
    /\ race.upd = "83"
    /\ api_flow_name'
          = update_flow_details(valves, get_flow_details(race.fetch)).api_flow_name
    /\ race' = [race EXCEPT !.upd = "idle",
                            !.settled = @ \cup {<<flow_id, flow_name>>}]
    /\ refresh' = [refresh EXCEPT !.fresh = TRUE, !.fetch = race.fetch]
    /\ UNCHANGED <<valves, flow_id, flow_name, chat_id, single, calls, rate_checks,
                   now, requests, unwrap, rate, served>>

\* pipe up to line 169: the body names its mode, the credentials are set,
\* and line 169 tests FLOW_ENABLED and self.flow_id
PipeTest ==
    /\ race.pipe = "ready"
    /\ \E streaming \in BOOLEAN :
          race' = [race EXCEPT
                     !.pipe = IF has_credentials(valves) /\ flow_ready(valves, flow_id)
                              THEN "tested" ELSE "refused",
                     !.streaming = streaming,
                     !.tested = <<flow_id, flow_name>>]
    /\ UNCHANGED <<config, chat_id, single, calls, rate_checks, now, requests, refresh,
                   unwrap, rate, served>>

\* lines 174 and 176: the first argument, self.flow_id, is loaded
PipeLoadFlowId ==
    /\ race.pipe = "tested"
    /\ race' = [race EXCEPT !.pipe = "id_loaded", !.args[1] = flow_id]
    /\ UNCHANGED <<config, chat_id, single, calls, rate_checks, now, requests, refresh,
                   unwrap, rate, served>>

\* lines 174 and 176: the second argument, self.flow_name, is loaded and
\* the generator is made with the two
PipeLoadFlowName ==
    /\ race.pipe = "id_loaded"
    /\ race' = [race EXCEPT !.pipe = "created", !.args[2] = flow_name]
    /\ UNCHANGED <<config, chat_id, single, calls, rate_checks, now, requests, refresh,
                   unwrap, rate, served>>

\* the first pull on the generator (lines 225-254, 434-460): the rate check
\* and the transport call, for the flow id bound at lines 174 and 176
RaceFirstPull ==
    /\ race.pipe = "created"
    /\ race' = [race EXCEPT !.pipe = "called"]
    /\ calls' = Append(calls, [op |-> IF race.streaming THEN "create_prediction"
                                      ELSE "post",
                               flow_id |-> race.args[1],
                               question |-> "hi",
                               sessionId |-> None])
    /\ rate_checks' = rate_checks + 1
    /\ now' = now + rate_check(valves, now, now)
    /\ UNCHANGED <<config, chat_id, single, requests, refresh, unwrap, rate, served>>

NextRace ==
    \/ AssignValves
    \/ ClearFlowId
    \/ ClearFlowName
    \/ ClearApiFlowName
    \/ TestAndFetch
    \/ StoreFlowId
    \/ StoreFlowName
    \/ StoreApiFlowName
    \/ PipeTest
    \/ PipeLoadFlowId
    \/ PipeLoadFlowName
    \/ RaceFirstPull

SpecRace == InitRace /\ [][NextRace]_vars

(***************************************************************************)
(* Valve changes, refreshes and requests.  The host assigns the valves,    *)
(* with or without a refresh after it, and serves requests in between,     *)
(* one request at a time.  Each action is one call of the host.  The       *)
(* instance starts configured for flow-1, enabled, with credentials.       *)
(***************************************************************************)
\* what the test at line 79 and the load at line 81 read from the valves
Captured(V) ==
    [configured |-> Configured(V), enabled |-> V.FLOW_ENABLED, flow_id |-> V.FLOW_ID]

InitServe ==
    /\ AtRest
    /\ unwrap = NoUnwrap
    /\ rate = NoRate
    /\ race = NoRace
    /\ served = [NoServed EXCEPT !.last = Captured(valves)]

\* what requests.get gives the refreshes here: the chatflow, or an exception
ServeFetches ==
    {HttpResponse(200, J(JDict(<<KV("name", S("Support"))>>))),
     HttpFailure("connection refused")}

\* on_startup / on_valves_updated (lines 88-97): update_flow_details
ServeRefresh ==
    /\ \E resp \in ServeFetches :
          LET flow == update_flow_details(valves, get_flow_details(resp))
          IN /\ flow_id' = flow.flow_id
             /\ flow_name' = flow.flow_name
             /\ api_flow_name' = flow.api_flow_name
             /\ refresh' = [refresh EXCEPT
                               !.fresh = TRUE,
                               !.fetch = IF Configured(valves) THEN resp ELSE NoResponse]
    /\ served' = [served EXCEPT !.last = Captured(valves)]
    /\ UNCHANGED <<valves, chat_id, single, calls, rate_checks, now, requests, unwrap, rate,
                   race>>

\* pipe that hands the generator the FLOW_ID valve in place of self.flow_id
ServePipeLive(r) ==
    /\ requests[r].pc = "inlet_done"
    /\ \E user_message \in UserMessages, raw_body \in Bodies :
          LET loaded == IF IsStr(raw_body) THEN json_loads(raw_body)
                        ELSE Parsed(raw_body)
              streaming == GetOr(loaded.val, "stream", JBool(FALSE)) = JBool(TRUE)
          IN IF ~loaded.ok \/ ~has_credentials(valves) \/ ~flow_ready(valves, flow_id)
             THEN requests' = [requests EXCEPT ![r].pc = "done"]
             ELSE requests' = [requests EXCEPT
                                 ![r].pc = "created",
                                 ![r].args = [streaming |-> streaming,
                                              query |-> strip_text(user_message),
                                              dt_start |-> now,
                                              session_id |-> chat_id,
                                              flow_id |-> valves.FLOW_ID,
                                              flow_name |-> flow_name]]
    /\ served' = [served EXCEPT !.at[r] = [served.last EXCEPT !.enabled = valves.FLOW_ENABLED]]
    /\ UNCHANGED <<config, chat_id, single, calls, rate_checks, now, refresh, unwrap, rate,
                   race>>

\* pipe (lines 128-177) for request r
ServePipe(r) ==
    /\ requests[r].pc = "inlet_done"
    /\ \E user_message \in UserMessages, raw_body \in Bodies :
          LET loaded == IF IsStr(raw_body) THEN json_loads(raw_body)
                        ELSE Parsed(raw_body)
              streaming == GetOr(loaded.val, "stream", JBool(FALSE)) = JBool(TRUE)
          IN IF ~loaded.ok \/ ~has_credentials(valves) \/ ~flow_ready(valves, flow_id)
             THEN requests' = [requests EXCEPT ![r].pc = "done"]
             ELSE requests' = [requests EXCEPT
                                 ![r].pc = "created",
                                 ![r].args = [streaming |-> streaming,
                                              query |-> strip_text(user_message),
                                              dt_start |-> now,
                                              session_id |-> chat_id,
                                              flow_id |-> flow_id,
                                              flow_name |-> flow_name]]
    /\ served' = [served EXCEPT !.at[r] = [served.last EXCEPT !.enabled = valves.FLOW_ENABLED]]
    /\ UNCHANGED <<config, chat_id, single, calls, rate_checks, now, refresh, unwrap, rate,
                   race>>

\* inlet for request r, the host serving one request at a time, A first
ServeInlet(r) ==
    /\ \A q \in Requests \ {r} :
          requests[q].pc \in IF r = "A" THEN {"idle"} ELSE {"called", "done"}
    /\ InletOf(r)

NextServe ==
    \/ SetValves
    \/ ServeRefresh
    \/ \E r \in Requests : ServeInlet(r)
    \/ \E r \in Requests : ServePipe(r)
    \/ \E r \in Requests : FirstPullOf(r)

SpecServe == InitServe /\ [][NextServe]_vars
(***************************************************************************)
(* Properties.                                                             *)
(***************************************************************************)
\* the record a chunk is once admitted (lines 280-286), and whether it is
\* a str that json.loads rejects
Admitted(c) == IF IsStr(c) /\ json_loads(c).ok THEN json_loads(c).val ELSE c
Unparseable(c) == IsStr(c) /\ ~json_loads(c).ok

\* the records of the stream handled so far
Handled == IF connected THEN 1..(pos - 1) ELSE {}

\* the fragments emitted for record i, and for the records after i
ChunkFrags(i) == Frags(SelectSeq(emitted, LAMBDA e : e.src = i))
FragsAfter(i) == Frags(SelectSeq(emitted, LAMBDA e : e.src > i))

\* the exception the loop body raises for a chunk, "" if none
Raises(c) == IF Unparseable(c) THEN "" ELSE chunk_body(Admitted(c), valves, now).exc

Last(q) == q[Len(q)]

\* C1: in incremental mode an exception raised while a chunk is classified
\* or rendered yields one error fragment for that chunk, carrying the
\* exception's message, and the stream goes on: no exception leaves the
\* generator, every later chunk is rendered, and the stream ends with the
\* completion status.
C1_ExceptionContained ==
    connected =>
        /\ pc # "failed"
        /\ \A i \in Handled :
              Raises(completion[i]) # "" =>
                 /\ ChunkFrags(i) # <<>>
                 /\ Last(ChunkFrags(i))
                      = TextFrag("\nError handling chunk: " \o Raises(completion[i]))
                 /\ \A k \in 1..(Len(ChunkFrags(i)) - 1) : ChunkFrags(i)[k].type # "text"
                 /\ FragsAfter(i) = RenderAll(SubSeq(completion, i + 1, pos - 1), valves, now)
        /\ pc = "done" =>
              /\ pos = Len(completion) + 1
              /\ Last(emitted).frag.type = "status" /\ Last(emitted).frag.done

C1_Witness ==
    /\ connected /\ pc = "done"
    /\ \E i \in 1..(Len(completion) - 1) : Raises(completion[i]) # ""

Unconfigured == ~valves.FLOW_ENABLED \/ flow_id = None \/ flow_name = None
EmptyQueryPulled == ret = "generator" /\ req.query = ""
BadBody ==
    "Error: The 'body' parameter received was an invalid JSON string. It must be a valid JSON object or a dictionary."
NotConfigured == "FlowiseAI flow is not configured or enabled."

\* C2: when the flow is disabled, or the cached flow id or name is missing,
\* or the composed query is empty, pipe yields exactly one explanatory text
\* fragment, in streaming and in non-streaming mode, and no transport call
\* (create_prediction, POST) and no rate check is made.
C2_ShortCircuit ==
    (Unconfigured \/ EmptyQueryPulled) =>
        /\ calls = <<>> /\ rate_checks = 0 /\ ~connected
        /\ pc \notin {"streaming", "failed"}
        /\ Unconfigured => ret # "generator"
        /\ pc = "done" =>
              /\ Len(emitted) = 1
              /\ emitted[1].frag.type = "text"
              /\ emitted[1].frag.text
                    \in IF EmptyQueryPulled THEN {"Query is empty."}
                        ELSE {BadBody, IF has_credentials(valves) THEN NotConfigured
                                       ELSE "Missing FlowiseAI configuration."}

C2_Witness ==
    /\ pc = "done" /\ ret = "iter"
    /\ valves.FLOW_ENABLED /\ valves.FLOW_ID # None /\ flow_name = None
    /\ has_credentials(valves)
    /\ Frags(emitted) = <<TextFrag(NotConfigured)>>

IsToken(c) == IsDict(c) /\ ~HasKey(c, "error") /\ Get(c, "event") = S("token")

\* C3: a record of kind token without an error key yields exactly one
\* fragment, the payload itself: for a str payload the text fragment with
\* the payload's text and nothing else, for any other payload the object as
\* it is; no visibility flag changes it.
C3_TokenVerbatim ==
    \A i \in Handled :
        LET c == Admitted(completion[i])
            data == Get(c, "data")
        IN (~Unparseable(completion[i]) /\ IsToken(c)) =>
              /\ Len(ChunkFrags(i)) = 1
              /\ IF IsStr(data)
                 THEN ChunkFrags(i)[1] = [type |-> "text", text |-> Text(data, 0),
                                           done |-> FALSE]
                 ELSE ChunkFrags(i)[1] = [type |-> "value", text |-> PyRepr(data),
                                           done |-> FALSE]

C3_Witness ==
    /\ \A f \in DisplayFlags : ~valves[f]
    /\ \E i \in Handled :
          /\ IsToken(Admitted(completion[i]))
          /\ ChunkFrags(i) = <<[type |-> "text", text |-> "a", done |-> FALSE]>>

HasError(c) == IsDict(c) /\ HasKey(c, "error")

\* C4: a record with an error key yields exactly one fragment, the error
\* message of line 290, whatever its kind and whatever the flags.
C4_ErrorFirst ==
    \A i \in Handled :
        LET c == Admitted(completion[i])
        IN (~Unparseable(completion[i]) /\ HasError(c)) =>
              ChunkFrags(i)
                 = <<TextFrag("Error during streaming: " \o PyStr(Get(c, "error")))>>

C4_Witness ==
    \E i \in Handled :
        /\ HasError(completion[i])
        /\ Get(completion[i], "event") = S("usedTools")
        /\ valves.DISPLAY_CALLED_TOOLS

\* C5: a str chunk that is not JSON yields exactly one warning fragment, and
\* the chunks after it are rendered as they are in a run without it.
C5_InvalidChunk ==
    connected =>
        \A i \in Handled :
            Unparseable(completion[i]) =>
               /\ pc # "failed"
               /\ Len(ChunkFrags(i)) = 1
               /\ ChunkFrags(i)[1].type = "text"
               /\ ChunkFrags(i)[1].text
                    = "Invalid JSON chunk:\n~~~\n" \o Text(completion[i], 0) \o "\n~~~"
               /\ pc = "done" =>
                     /\ pos = Len(completion) + 1
                     /\ FragsAfter(i)
                          = RenderAll(SubSeq(completion, i + 1, Len(completion)), valves, now)
                     /\ Last(emitted).frag = analysis_completed(req.dt_start, now)

C5_Witness ==
    /\ connected /\ pc = "done"
    /\ \E i \in 1..(Len(completion) - 1) :
          Unparseable(completion[i]) /\ ChunkFrags(i + 1) # <<>>

\* C6: once the connection is established the first fragment is the
\* "analysis started" status (done = False); the fragments of the records
\* follow in the order of the records; and the stream ends with the
\* "analysis completed" status (done = True), which carries the time
\* elapsed since pipe was called.
C6_Ordering ==
    connected =>
        /\ Len(emitted) >= 1
        /\ emitted[1].src = 0
        /\ emitted[1].frag.type = "status" /\ ~emitted[1].frag.done
        /\ emitted[1].frag.text = "Analysis started at " \o Stamp(now) \o "\n"
        /\ \A k \in 2..Len(emitted) :
              \/ emitted[k].src \in 1..Len(completion)
                 /\ (k > 2 => emitted[k - 1].src \in 1..emitted[k].src)
                 /\ (pc = "done" => k < Len(emitted))
              \/ k = Len(emitted) /\ pc = "done" /\ emitted[k].src = 0
        /\ pc = "done" =>
              /\ Len(emitted) >= 2
              /\ Last(emitted).src = 0
              /\ Last(emitted).frag
                   = [type |-> "status",
                      text |-> "Analysis completed at " \o Stamp(now)
                               \o ", total analysis time: "
                               \o ToString(now - req.dt_start) \o " ms\n",
                      done |-> TRUE]
        /\ pc = "streaming" => \A k \in 2..Len(emitted) : emitted[k].src # 0

C6_Witness ==
    /\ connected /\ pc = "done"
    /\ now > req.dt_start
    /\ \E j, k \in 2..(Len(emitted) - 1) : emitted[j].src < emitted[k].src
Aggregate == ret = "generator" /\ ~req.streaming /\ req.query # "" /\ pc = "done"
AnswersRun == response = HttpResponse(200, AnswerBody(completion))

TextFree(c) == ConcatText(process_chunk(c, valves, now).out) = ""
StrToken(c) == IsToken(Admitted(c)) /\ IsStr(Get(Admitted(c), "data"))

StepFrag(k) == TextFrag("[Reasoning Step] " \o json_dumps_indent(Entry(k)) \o "\n")
IsSnapshotRun == completion # <<>> /\ completion = [i \in 1..Len(completion) |-> Snapshot(i)]
Times(frag) == Cardinality({j \in 1..Len(emitted) : emitted[j].frag = frag})

\* C8 (as stated): over successive cumulative snapshots of the reasoning
\* steps in one stream, each list entry is rendered exactly once.
C8_EachEntryOnce ==
    (connected /\ valves.DISPLAY_AGENT_REASONING /\ IsSnapshotRun) =>
        \A k \in 1..(pos - 1) : Times(StepFrag(k)) = 1

KindFlag(kind) ==
    CASE kind = "start" -> "DISPLAY_START_EVENT"
      [] kind = "update" -> "DISPLAY_UPDATE_EVENT"
      [] kind = "metadata" -> "DISPLAY_METADATA"
      [] kind = "agentReasoning" -> "DISPLAY_AGENT_REASONING"
      [] kind = "end" -> "DISPLAY_END_EVENT"
      [] kind = "agentFlowEvent" -> "DISPLAY_AGENT_FLOW_EVENT"
      [] kind = "nextAgentFlow" -> "DISPLAY_NEXT_AGENT_FLOW"
      [] kind = "agentFlowExecutedData" -> "DISPLAY_AGENT_FLOW_EXECUTED_DATA"
      [] kind = "usageMetadata" -> "DISPLAY_USAGE_METADATA"

IsGated(c) ==
    /\ IsDict(c) /\ ~HasKey(c, "error")
    /\ IsStr(Get(c, "event")) /\ Get(c, "event").core = "plain"
    /\ Get(c, "event").word \in GatedKinds
KindOf(c) == Get(c, "event").word
GatedRecords == {i \in Handled : ~Unparseable(completion[i]) /\ IsGated(Admitted(completion[i]))}

\* C9 (as stated): a record of a gated kind contributes no fragment at all
\* when the flag of its kind is false.
C9_Orig ==
    \A i \in GatedRecords :
        ~valves[KindFlag(KindOf(Admitted(completion[i])))] => ChunkFrags(i) = <<>>

OnlyFlag(flag, others) ==
    [f \in ValveNames |->
        IF f \in DisplayFlags THEN (IF f = flag THEN valves[f] ELSE others) ELSE valves[f]]

\* C9 (amended): a record of a gated kind yields text only if the flag of
\* its kind is true.  With the flag false it yields no fragment at all,
\* except that an agentReasoning record still yields its one "Thinking..."
\* status fragment, which no flag gates.  The flags of the other kinds do
\* not change the record's fragments.
C9_OwnFlag ==
    \A i \in GatedRecords :
        LET kind == KindOf(Admitted(completion[i]))
            flag == KindFlag(kind)
        IN /\ (\E k \in 1..Len(ChunkFrags(i)) : ChunkFrags(i)[k].type = "text")
                 => valves[flag]
           /\ ~valves[flag] =>
                 ChunkFrags(i) = IF kind = "agentReasoning"
                                 THEN <<StatusFrag("Thinking...\n", FALSE)>>
                                 ELSE <<>>
           /\ \A others \in BOOLEAN :
                 ChunkFrags(i) = process_chunk(completion[i], OnlyFlag(flag, others), now).out

C9_Witness ==
    \E i, j \in GatedRecords :
        /\ KindOf(Admitted(completion[i])) = "agentReasoning"
        /\ ~valves.DISPLAY_AGENT_REASONING
        /\ ChunkFrags(i) = <<StatusFrag("Thinking...\n", FALSE)>>
        /\ KindOf(Admitted(completion[j])) = "agentReasoning"
        /\ i < j

IsToolList(c) ==
    /\ IsDict(c) /\ ~HasKey(c, "error")
    /\ Get(c, "event") = S("usedTools")
    /\ IsList(Get(c, "data"))
    /\ \A k \in 1..Len(Get(c, "data").items) : IsDict(Get(c, "data").items[k])

\* C10 (as stated): for a usedTools record the "tool calling" status comes
\* first, and names, inputs and outputs are each shown exactly when their
\* own flag is true, independently of the other two: so a text block
\* follows the status exactly when at least one of the three flags is true.
C10_IndependentFlags ==
    \A i \in Handled :
        IsToolList(completion[i]) =>
           /\ ChunkFrags(i) # <<>>
           /\ ChunkFrags(i)[1] = StatusFrag("Tool calling...\n", FALSE)
           /\ (\E k \in 2..Len(ChunkFrags(i)) : ChunkFrags(i)[k].type = "text")
                 <=> (\/ valves.DISPLAY_CALLED_TOOLS
                      \/ valves.DISPLAY_CALLED_TOOLS_INPUT
                      \/ valves.DISPLAY_CALLED_TOOLS_OUTPUT)
NamedKinds ==
    {"token", "start", "update", "agentReasoning", "metadata", "agentFlowEvent",
     "nextAgentFlow", "agentFlowExecutedData", "usedTools", "usageMetadata", "end",
     "agent_trace"}
KindIs(c, kind) == Get(c, "event") = S(kind)
\* a record that matches none of the named branches: its kind is unrecognized
\* or absent, or it is an agent_trace whose step is not agent_action
Unmatched(c) ==
    /\ IsDict(c) /\ ~HasKey(c, "error")
    /\ \/ \A kind \in NamedKinds : ~KindIs(c, kind)
       \/ /\ KindIs(c, "agent_trace")
          /\ IsDict(Get(c, "data"))
          /\ Get(Get(c, "data"), "step") # S("agent_action")
GenericBlock(c) ==
    TextFrag("[Other Event: " \o PyStr(Get(c, "event")) \o "] "
             \o json_dumps(Get(c, "data")) \o "\n")

\* C11 (as stated): a record without an error key that matches no named
\* branch (kind unrecognized or absent, or agent_trace with a step other
\* than agent_action) yields exactly one generic labelled block when
\* DISPLAY_OTHER_EVENTS is true and nothing when it is false.
C11_CatchAll ==
    \A i \in Handled :
        LET c == Admitted(completion[i])
        IN (~Unparseable(completion[i]) /\ Unmatched(c)) =>
              ChunkFrags(i) = IF valves.DISPLAY_OTHER_EVENTS THEN <<GenericBlock(c)>>
                              ELSE <<>>
\* C12 (as stated): in every interleaving of two requests' inlet and pipe
\* calls on one Pipeline instance, the session id a request forwards to the
\* remote flow is the chat id of that request's own inlet.
C12_OwnSession ==
    \A r \in Requests :
        /\ requests[r].pc \in {"created", "called"} => requests[r].args.session_id = ChatOf(r)
        /\ requests[r].pc = "called" => requests[r].call.sessionId = ChatOf(r)
FetchFailed(resp) ==
    resp.exc # "" \/ resp.status_code # 200 \/ ~json_loads(resp.body).ok

\* C13: after every completed refresh, following any sequence of valve
\* assignments and refreshes, the cached flow id and flow name are both
\* present or both absent; they are present exactly when FLOW_ENABLED,
\* FLOW_ID and FLOW_NAME are all set, whatever the fetch of the canonical
\* name gave; and after a failed fetch the canonical name is 'Unknown'.
C13_RefreshInvariant ==
    refresh.fresh =>
        /\ (flow_id = None) <=> (flow_name = None)
        /\ (flow_id # None) <=> Configured(valves)
        /\ flow_id # None =>
              /\ flow_id = valves.FLOW_ID
              /\ flow_name = lower(valves.FLOW_NAME)
              /\ FetchFailed(refresh.fetch) => api_flow_name = "Unknown"
              /\ ~FetchFailed(refresh.fetch) =>
                    api_flow_name
                       = PyStr(GetOr(get_flow_details(refresh.fetch), "name", S("Unknown")))
        /\ flow_id = None => api_flow_name = None /\ refresh.fetch = NoResponse

C13_Witness ==
    /\ refresh.fresh /\ refresh.changes = MaxChanges
    /\ flow_id = "flow-2" /\ flow_name = "support bot"
    /\ refresh.fetch = HttpFailure("connection refused")
    /\ api_flow_name = "Unknown"
\* C14: unwrap_json is idempotent: on every value tree, a second
\* application returns the result of the first.
C14_Idempotent ==
    unwrap.step = 2 => unwrap.twice = unwrap.once

C14_Witness ==
    /\ unwrap.step = 2
    /\ unwrap.value = JList(<<Padded(J(JList(<<Padded(S("hi"))>>)))>>)
    /\ unwrap.once = JList(<<JList(<<S("hi")>>)>>)
    /\ unwrap.twice = unwrap.once

\* a str whose stripped text starts and ends with a matching bracket pair
JsonLooking(x) == IsStr(x) /\ Bracketed(strip(x))
\* the tree holds such a str
RECURSIVE HoldsJsonLooking(_)
HoldsJsonLooking(x) ==
    \/ JsonLooking(x)
    \/ IsList(x) /\ \E i \in 1..Len(x.items) : HoldsJsonLooking(x.items[i])
    \/ IsDict(x) /\ \E i \in 1..Len(x.items) : HoldsJsonLooking(x.items[i].val)

\* C15 (as stated): a value that holds no JSON-looking string, strings with
\* leading or trailing whitespace included, is returned as it is.
C15_Identity ==
    (unwrap.step >= 1 /\ ~HoldsJsonLooking(unwrap.value)) => unwrap.once = unwrap.value

\* the tree holds, at any level of JSON encoding, a str with blanks around
\* it that is not JSON-looking
RECURSIVE HoldsPaddedPlain(_)
HoldsPaddedPlain(x) ==
    \/ IsStr(x) /\ ~JsonLooking(x) /\ (x.lws \/ x.rws)
    \/ IsStr(x) /\ JsonLooking(x) /\ json_loads(x).ok /\ HoldsPaddedPlain(json_loads(x).val)
    \/ IsList(x) /\ \E i \in 1..Len(x.items) : HoldsPaddedPlain(x.items[i])
    \/ IsDict(x) /\ \E i \in 1..Len(x.items) : HoldsPaddedPlain(x.items[i].val)

\* what the statement of C16 gives for a tree: a JSON-looking str that parses
\* becomes what it gives for the parsed structure, one that does not parse
\* stays as it is, and so does every other str
RECURSIVE Replaced(_)
Replaced(x) ==
    CASE JsonLooking(x) ->
            IF json_loads(x).ok THEN Replaced(json_loads(x).val) ELSE x
      [] IsList(x) -> JList([i \in 1..Len(x.items) |-> Replaced(x.items[i])])
      [] IsDict(x) ->
            JDict([i \in 1..Len(x.items) |-> KV(x.items[i].k, Replaced(x.items[i].val))])
      [] OTHER -> x

\* C16 (as stated): a str at any depth whose trimmed text is delimited by
\* brackets is replaced by its parsed structure, unwrapped in turn, if it
\* parses, and is left unchanged, character for character, if it does not.
\* Trees with blanks around a str that is not JSON-looking are left aside.
C16_ParseOrKeep ==
    (unwrap.step >= 1 /\ ~HoldsPaddedPlain(unwrap.value)) =>
        unwrap.once = Replaced(unwrap.value)
\* C17 (as stated): rate_check sleeps max(0, 60/limit - elapsed) seconds,
\* limit being the operations per minute: 12 seconds for limit 5 and
\* elapsed 0, nothing from 12 seconds on.  In milliseconds:
C17_PerMinute ==
    rate.step = 1 =>
        rate.slept = IF 60000 \div valves.RATE_LIMIT > rate.elapsed
                     THEN 60000 \div valves.RATE_LIMIT - rate.elapsed
                     ELSE 0
ConnectFailed ==
    /\ pc = "done" /\ ret = "generator" /\ req.streaming /\ req.query # "" /\ ~connected
PostFailed == Aggregate /\ (response.exc # "" \/ response.status_code # 200)

\* C18: in both modes a transport failure (an exception when connecting, a
\* status other than 200) gives exactly one text fragment and ends the
\* request; nothing is retried: a request makes at most one transport call,
\* and one rate check per call.
C18_FailureOnce ==
    /\ Len(calls) <= 1
    /\ rate_checks = Len(calls)
    /\ ConnectFailed =>
          /\ Len(calls) = 1 /\ calls[1].op = "create_prediction"
          /\ Len(emitted) = 1
          /\ \E failure \in ConnectFailures :
                emitted[1].frag
                   = TextFrag((IF failure.network THEN "Network error during streaming:\n~~~\n"
                               ELSE "Exception during streaming:\n~~~\n")
                              \o failure.message \o "\n~~~")
    /\ PostFailed =>
          /\ Len(calls) = 1 /\ calls[1].op = "post"
          /\ Frags(emitted)
               = <<TextFrag(IF response.exc # ""
                            THEN "Error calling FlowiseAI: " \o response.exc
                            ELSE "Error from FlowiseAI: Status "
                                 \o ToString(response.status_code))>>
    /\ (ConnectFailed \/ PostFailed) => ~ENABLED Next

C18_Witness ==
    /\ ConnectFailed
    /\ Frags(emitted)
         = <<TextFrag("Network error during streaming:\n~~~\nconnection refused\n~~~")>>
    /\ calls = <<Call("create_prediction")>>
Succeeded == Aggregate /\ response.exc = "" /\ response.status_code = 200
HoldsRecognized(x) ==
    IsDict(x) /\ \E i \in 1..Len(RecognizedKeys) : HasKey(x, RecognizedKeys[i])
FirstRecognized(x) ==
    Get(x, RecognizedKeys[CHOOSE i \in 1..Len(RecognizedKeys) :
                             /\ HasKey(x, RecognizedKeys[i])
                             /\ \A j \in 1..(i - 1) : ~HasKey(x, RecognizedKeys[j])])

\* C19 (as stated): a successful single-shot response gives exactly one
\* fragment: the value of a recognized field when the body is a JSON mapping
\* that holds one, a formatted JSON block of the whole value when the body
\* is another JSON value, and the body itself, verbatim, when the body is a
\* string that is not JSON.  (A body that is a JSON string literal is left
\* to either reading.)
C19_SuccessShapes ==
    Succeeded =>
        /\ Len(emitted) = 1
        /\ LET body == response.body
               result == json_loads(body)
           IN CASE ~result.ok -> emitted[1].frag = TextFrag(Text(body, 0))
                [] result.ok /\ HoldsRecognized(result.val) ->
                      emitted[1].frag = Yield(FirstRecognized(result.val))
                [] result.ok /\ IsStr(result.val) -> TRUE
                [] OTHER ->
                      emitted[1].frag
                         = TextFrag("~~~json\n" \o json_dumps_indent(result.val) \o "\n~~~")
IsAgentAction(c) ==
    /\ IsDict(c) /\ ~HasKey(c, "error")
    /\ KindIs(c, "agent_trace")
    /\ IsDict(Get(c, "data"))
    /\ Get(Get(c, "data"), "step") = S("agent_action")
ActionOf(c) == Get(Get(c, "data"), "action")
ErrorFrag(message) == TextFrag("\nError handling chunk: " \o message)

\* C20: for an agent_trace record with step agent_action, an action that is
\* the JSON text of a mapping gives exactly one status fragment 'Tool
\* calling <name>...' (done False), <name> being the mapping's tool field,
\* and no text; an action that is malformed or missing gives exactly one
\* error fragment for the record; no exception leaves the stream and the
\* records that follow are processed.
C20_AgentAction ==
    \A i \in Handled :
        IsAgentAction(completion[i]) =>
           LET action == ActionOf(completion[i])
               parsed == json_loads(action)
           IN /\ pc # "failed"
              /\ FragsAfter(i) = RenderAll(SubSeq(completion, i + 1, pos - 1), valves, now)
              /\ (parsed.ok /\ IsDict(parsed.val)) =>
                    ChunkFrags(i)
                       = <<StatusFrag("Tool calling "
                                      \o PyStr(GetOr(parsed.val, "tool", S("Unknown tool")))
                                      \o "...\n", FALSE)>>
              /\ ~parsed.ok => ChunkFrags(i) = <<ErrorFrag(parsed.exc)>>
              /\ (parsed.ok /\ ~IsDict(parsed.val)) =>
                    ChunkFrags(i) = <<ErrorFrag(NoAttr(parsed.val, "get"))>>

C20_Witness ==
    /\ pc = "done"
    /\ \E i \in 1..(Len(completion) - 1) :
          /\ IsAgentAction(completion[i])
          /\ ActionOf(completion[i]) = Broken("{oops}")
          /\ ChunkFrags(i)
               = <<TextFrag("\nError handling chunk: Expecting property name enclosed in double quotes: line 1 column 2 (char 1)")>>
          /\ ChunkFrags(i + 1) = <<TextFrag("a")>>
Handed == race.pipe \in {"created", "called"}
OfOneRefresh(pair) ==
    \/ pair \in race.settled
    \/ race.upd = "83" /\ pair = <<flow_id, flow_name>>

\* C21 (as stated): in every interleaving of a refresh with an in-flight
\* call of pipe, the flow id and name that pipe hands to the transport are
\* the ones in place when it tested the configuration at line 169: the id
\* is never absent, the pair was left by one refresh, and the transport
\* call is made for that id.
C21_ReadOnly ==
    /\ Handed =>
          /\ race.args[1] # None
          /\ race.args = race.tested
          /\ OfOneRefresh(race.args)
    /\ race.pipe = "called" =>
          /\ Last(calls).flow_id = race.tested[1]
          /\ Last(calls).flow_id # None
Contacting(r) == requests[r].pc \in {"created", "called"}
Refused(r) ==
    /\ requests[r].pc = "done"
    /\ requests[r].args = NoReq
    /\ requests[r].call = NoCall

\* C22: after any sequence of valve assignments and refreshes, a request
\* gets as far as the transport only if the valves were all set at the
\* most recent refresh before its pipe and FLOW_ENABLED was true when its
\* pipe ran; the flow id it binds, and sends, is the FLOW_ID valve read by
\* that refresh, whatever FLOW_ID and FLOW_NAME hold since; and a request
\* whose pipe finds FLOW_ENABLED false is refused, refresh or no refresh.
C22_CapturedAtRefresh ==
    \A r \in Requests :
        /\ Contacting(r) =>
              /\ served.at[r].configured
              /\ served.at[r].enabled
              /\ requests[r].args.flow_id = served.at[r].flow_id
        /\ requests[r].pc = "called" =>
              /\ requests[r].call.flow_id = served.at[r].flow_id
              /\ \E i \in 1..Len(calls) : calls[i] = requests[r].call
        /\ (requests[r].pc \in {"created", "called", "done"} /\ ~served.at[r].enabled)
              => Refused(r)

\* request A is sent for flow-1, the id of the last refresh, although the
\* FLOW_ID valve was changed since; then FLOW_ENABLED was set to false
\* with no refresh, and request B is refused
C22_Witness ==
    /\ requests["A"].pc = "called"
    /\ requests["A"].call.flow_id = "flow-1"
    /\ served.at["A"].flow_id = "flow-1"
    /\ ~refresh.fresh
    /\ valves.FLOW_ID = "flow-2"
    /\ flow_id = "flow-1"
    /\ Refused("B")
    /\ served.at["B"].configured /\ ~served.at["B"].enabled
    /\ ~valves.FLOW_ENABLED
====
